---- MODULE Spec2Model ----
(***************************************************************************)
(* A model of go-github-sync (gh-mirror): configuration loading,           *)
(* repository validation, mirror resolution, workflow generation and the   *)
(* optional installation of the workflow through the forge content API.    *)
(*                                                                         *)
(* Go strings that come from the command line or the environment are       *)
(* sequences of one-character strings, so that prefixes, suffixes, letter  *)
(* case and separators are computed the way the code computes them.  Text  *)
(* the program only emits (messages, template text) is a TLA+ string.      *)
(* Percent signs and control characters are outside the alphabet of the    *)
(* modelled locations, so url.Parse's unescaping is the identity on them.  *)
(***************************************************************************)
EXTENDS Integers, Sequences, FiniteSets, TLC

\* ------------------------------------------------------------------------
\* Bounds of the model
\* ------------------------------------------------------------------------

\* Longest owner / name segment, counted in word pieces, of a generated location.
MaxParts == 2

\* ------------------------------------------------------------------------
\* Character-sequence literals
\* ------------------------------------------------------------------------

HttpPrefix == <<"h", "t", "t", "p", ":", "/", "/">>
HttpsPrefix == <<"h", "t", "t", "p", "s", ":", "/", "/">>
GitSuffix == <<".", "g", "i", "t">>
GithubHost == <<"g", "i", "t", "h", "u", "b", ".", "c", "o", "m">>
SshGithubPrefix == <<"g", "i", "t", "@", "g", "i", "t", "h", "u", "b", ".", "c", "o", "m", ":">>
GitAt == <<"g", "i", "t", "@">>
SshScheme == <<"s", "s", "h", ":", "/", "/">>
InfoRefs == <<"/", "i", "n", "f", "o", "/", "r", "e", "f", "s", "?", "s", "e", "r", "v", "i", "c", "e", "=", "g", "i", "t", "-", "u", "p", "l", "o", "a", "d", "-", "p", "a", "c", "k">>
hourly == <<"h", "o", "u", "r", "l", "y">>
daily == <<"d", "a", "i", "l", "y">>
weekly == <<"w", "e", "e", "k", "l", "y">>
biweekly == <<"b", "i", "w", "e", "e", "k", "l", "y">>
ExampleHost == <<"e", "x", "a", "m", "p", "l", "e", ".", "o", "r", "g">>
LowerLetters == <<"a", "b", "c", "d", "e", "f", "g", "h", "i", "j", "k", "l", "m", "n", "o", "p", "q", "r", "s", "t", "u", "v", "w", "x", "y", "z">>
UpperLetters == <<"A", "B", "C", "D", "E", "F", "G", "H", "I", "J", "K", "L", "M", "N", "O", "P", "Q", "R", "S", "T", "U", "V", "W", "X", "Y", "Z">>
Digits == <<"0", "1", "2", "3", "4", "5", "6", "7", "8", "9">>
user == <<"u", "s", "e", "r">>
repo == <<"r", "e", "p", "o">>
http == <<"h", "t", "t", "p">>
https == <<"h", "t", "t", "p", "s">>
Slash == <<"/">>
Colon == <<":">>

Range(s) == {s[i] : i \in 1..Len(s)}

\* ------------------------------------------------------------------------
\* Package strings, on character sequences
\* ------------------------------------------------------------------------

HasPrefix(s, p) == Len(s) >= Len(p) /\ SubSeq(s, 1, Len(p)) = p

HasSuffix(s, p) == Len(s) >= Len(p) /\ SubSeq(s, Len(s) - Len(p) + 1, Len(s)) = p

TrimPrefix(s, p) == IF HasPrefix(s, p) THEN SubSeq(s, Len(p) + 1, Len(s)) ELSE s

TrimSuffix(s, p) == IF HasSuffix(s, p) THEN SubSeq(s, 1, Len(s) - Len(p)) ELSE s

\* strings.Index, 1-based; 0 stands for Go's -1.
Index(s, sub) ==
    LET hits == {i \in 1..(Len(s) - Len(sub) + 1) : SubSeq(s, i, i + Len(sub) - 1) = sub}
    IN  IF hits = {} THEN 0 ELSE CHOOSE i \in hits : \A j \in hits : i <= j

\* strings.LastIndex, 1-based; 0 stands for Go's -1.
LastIndex(s, sub) ==
    LET hits == {i \in 1..(Len(s) - Len(sub) + 1) : SubSeq(s, i, i + Len(sub) - 1) = sub}
    IN  IF hits = {} THEN 0 ELSE CHOOSE i \in hits : \A j \in hits : i >= j

Contains(s, sub) == Index(s, sub) # 0

\* strings.Cut: the text before and after the first occurrence of sep, which
\* starts at i (0: sep does not occur).
CutAt(s, sep, i) ==
    IF i = 0 THEN [before |-> s, after |-> <<>>, found |-> FALSE]
    ELSE [before |-> SubSeq(s, 1, i - 1),
          after  |-> SubSeq(s, i + Len(sep), Len(s)),
          found  |-> TRUE]

Cut(s, sep) == CutAt(s, sep, Index(s, sep))

\* strings.Split with a non-empty separator: always at least one element.
RECURSIVE Split(_, _)
RECURSIVE SplitCut(_, _, _)
SplitCut(c, s, sep) ==
    IF c.found THEN <<c.before>> \o Split(c.after, sep) ELSE <<s>>

Split(s, sep) == SplitCut(Cut(s, sep), s, sep)

ToLowerChar(c) ==
    IF \E i \in 1..Len(UpperLetters) : UpperLetters[i] = c
    THEN LowerLetters[CHOOSE i \in 1..Len(UpperLetters) : UpperLetters[i] = c]
    ELSE c

ToUpperChar(c) ==
    IF \E i \in 1..Len(LowerLetters) : LowerLetters[i] = c
    THEN UpperLetters[CHOOSE i \in 1..Len(LowerLetters) : LowerLetters[i] = c]
    ELSE c

ToLower(s) == [i \in 1..Len(s) |-> ToLowerChar(s[i])]

IsLetter(c) == c \in Range(LowerLetters) \cup Range(UpperLetters)

IsDigit(c) == c \in Range(Digits)

\* ------------------------------------------------------------------------
\* Package net/url, as far as the resolvers use it
\* ------------------------------------------------------------------------

\* url.getScheme: the scheme and the rest, or no scheme at all.
\* err is "" for a nil error.
getScheme(rawURL) ==
    LET stops == {i \in 1..Len(rawURL) :
                     \/ rawURL[i] = ":"
                     \/ ~(IsLetter(rawURL[i]) \/ IsDigit(rawURL[i])
                          \/ rawURL[i] \in {"+", "-", "."})
                     \/ (i = 1 /\ ~IsLetter(rawURL[i]))}
        none  == [scheme |-> <<>>, rest |-> rawURL, err |-> ""]
    IN  IF stops = {} THEN none
        ELSE LET i == CHOOSE k \in stops : \A j \in stops : k <= j
             IN  IF rawURL[i] = ":"
                 THEN IF i = 1
                      THEN [scheme |-> <<>>, rest |-> <<>>, err |-> "missing protocol scheme"]
                      ELSE [scheme |-> SubSeq(rawURL, 1, i - 1),
                            rest   |-> SubSeq(rawURL, i + 1, Len(rawURL)),
                            err    |-> ""]
                 ELSE none

\* url.validOptionalPort: empty, or a colon followed by digits only.
validOptionalPort(port) ==
    \/ port = <<>>
    \/ /\ port[1] = ":"
       /\ \A i \in 2..Len(port) : IsDigit(port[i])

\* url.parseHost: the part of the host from its last ':' on must be a valid port.
parseHost(host, col) ==
    IF validOptionalPort(IF col = 0 THEN <<>> ELSE SubSeq(host, col, Len(host)))
    THEN [host |-> host, err |-> ""]
    ELSE [host |-> <<>>, err |-> "invalid port after host"]

\* url.parseAuthority: the user info ends at the last '@' (position at).
parseAuthorityAt(authority, at) ==
    IF at = 0
    THEN parseHost(authority, LastIndex(authority, Colon))
    ELSE parseHost(SubSeq(authority, at + 1, Len(authority)),
                   LastIndex(SubSeq(authority, at + 1, Len(authority)), Colon))

parseAuthority(authority) == parseAuthorityAt(authority, LastIndex(authority, <<"@">>))

URL(scheme, host, path) == [err |-> "", Scheme |-> scheme, Host |-> host, Path |-> path]
URLError(e) == [err |-> e, Scheme |-> <<>>, Host |-> <<>>, Path |-> <<>>]

\* url.parse, the authority a parsed and the path following it.
parseWithAuthority(scheme, a, path) ==
    IF a.err # "" THEN URLError(a.err) ELSE URL(scheme, a.host, path)

\* url.parse, "//" found: auth is the text after it, i the first '/' in auth.
parseAuthorityAndPath(scheme, auth, i) ==
    IF i = 0
    THEN parseWithAuthority(scheme, parseAuthority(auth), <<>>)
    ELSE parseWithAuthority(scheme, parseAuthority(SubSeq(auth, 1, i - 1)),
                            SubSeq(auth, i, Len(auth)))

\* url.parse, after the query was cut off: a rootless path is kept opaque
\* (with a scheme) or refused when its first segment holds a colon (without
\* one); then the authority is split from the path.
parseRest(scheme, rest) ==
    IF ~HasPrefix(rest, Slash) /\ scheme # <<>>
    THEN URL(scheme, <<>>, <<>>)
    ELSE IF ~HasPrefix(rest, Slash) /\ Contains(Cut(rest, Slash).before, Colon)
    THEN URLError("first path segment in URL cannot contain colon")
    ELSE IF HasPrefix(rest, <<"/", "/">>)
            /\ (scheme # <<>> \/ ~HasPrefix(rest, <<"/", "/", "/">>))
    THEN parseAuthorityAndPath(scheme, SubSeq(rest, 3, Len(rest)),
                               Index(SubSeq(rest, 3, Len(rest)), Slash))
    ELSE URL(scheme, <<>>, rest)

\* url.parse, after getScheme: the scheme is lower-cased and the query cut off.
parseScheme(sch) ==
    IF sch.err # "" THEN URLError(sch.err)
    ELSE parseRest(ToLower(sch.scheme),
                   IF HasSuffix(sch.rest, <<"?">>)
                      /\ Cardinality({i \in 1..Len(sch.rest) : sch.rest[i] = "?"}) = 1
                   THEN SubSeq(sch.rest, 1, Len(sch.rest) - 1)
                   ELSE Cut(sch.rest, <<"?">>).before)

parse(rawURL) == parseScheme(getScheme(rawURL))

\* url.Parse: the fragment is cut off first.
Parse(rawURL) == parse(Cut(rawURL, <<"#">>).before)

\* ------------------------------------------------------------------------
\* Package git: the mirror resolver of repository validation
\* ------------------------------------------------------------------------

ensureGitExtension(repoURL) ==
    IF ~HasSuffix(repoURL, GitSuffix) THEN repoURL \o GitSuffix ELSE repoURL

\* The result of a resolver: owner, repository name and the error ("" for nil).
Resolved(owner, name) == [owner |-> owner, repo |-> name, err |-> ""]
ResolveError(e) == [owner |-> <<>>, repo |-> <<>>, err |-> e]

\* A resolver end that leaves a trailing ".git" on the name.
PathReferenceKeepSuffix(pathParts, e) ==
    IF Len(pathParts) < 2
    THEN ResolveError(e)
    ELSE Resolved(pathParts[1], pathParts[2])

\* Both resolvers end alike: fewer than two segments are refused (with the
\* error e), else the first is the owner and the second, less a trailing
\* ".git", the name.
PathReference(pathParts, e) ==
    IF Len(pathParts) < 2
    THEN ResolveError(e)
    ELSE Resolved(pathParts[1], TrimSuffix(pathParts[2], GitSuffix))

\* git.parseGitHubURL, after url.Parse(cleanURL).
gitParseParsed(githubURL, parsedURL) ==
    IF parsedURL.err # "" THEN ResolveError("invalid URL")
    ELSE IF parsedURL.Scheme = http \/ parsedURL.Scheme = https
    THEN PathReference(Split(TrimPrefix(parsedURL.Path, Slash), Slash),
                       "invalid GitHub repository path")
    ELSE IF HasPrefix(githubURL, SshGithubPrefix)
    THEN PathReference(Split(TrimPrefix(githubURL, SshGithubPrefix), Slash),
                       "invalid GitHub SSH URL format")
    ELSE ResolveError("unsupported GitHub URL format")

gitParseGitHubURL(githubURL) ==
    gitParseParsed(githubURL, Parse(ensureGitExtension(githubURL)))

\* ------------------------------------------------------------------------
\* Package github: the mirror resolver of the forge client
\* ------------------------------------------------------------------------

\* github.parseGitHubURL, the HTTP(S) branch after url.Parse(githubURL).
githubParseParsed(parsedURL) ==
    IF parsedURL.err # "" THEN ResolveError("invalid URL")
    ELSE PathReference(Split(TrimPrefix(parsedURL.Path, Slash), Slash),
                       "invalid GitHub repository path")

githubParseGitHubURL(githubURL) ==
    IF HasPrefix(githubURL, HttpPrefix) \/ HasPrefix(githubURL, HttpsPrefix)
    THEN githubParseParsed(Parse(githubURL))
    ELSE IF HasPrefix(githubURL, SshGithubPrefix)
    THEN PathReference(Split(TrimPrefix(githubURL, SshGithubPrefix), Slash),
                       "invalid GitHub SSH URL format")
    ELSE ResolveError("unsupported GitHub URL format")

\* ------------------------------------------------------------------------
\* Package workflow: the schedule mapper
\* ------------------------------------------------------------------------

\* A schedule mapper whose fallback is the daily expression.
getCronScheduleDailyDefault(interval) ==
    IF interval = hourly THEN "0 * * * *"
    ELSE IF interval = daily THEN "0 0 * * *"
    ELSE IF interval = weekly THEN "0 0 * * 0"
    ELSE "0 0 * * *"

getCronSchedule(interval) ==
    IF interval = hourly THEN "0 * * * *"
    ELSE IF interval = daily THEN "0 0 * * *"
    ELSE IF interval = weekly THEN "0 0 * * 0"
    ELSE "0 * * * *"

\* ------------------------------------------------------------------------
\* Package config
\* ------------------------------------------------------------------------

\* A *Config is a sequence: <<>> is nil, <<c>> points to c.
Nil == <<>>
Ptr(c) == <<c>>

\* The Configuration Load builds once every check has passed.
NewConfig(fl, githubToken) ==
    [cfg |-> Ptr([GithubToken   |-> githubToken,
                  PrimaryRepo   |-> fl.primaryRepo,
                  MirrorRepo    |-> fl.mirrorRepo,
                  PrimaryBranch |-> fl.primaryBranch,
                  MirrorBranch  |-> fl.mirrorBranch,
                  SyncInterval  |-> fl.syncInterval,
                  ForceSync     |-> fl.forceSync,
                  OutputFile    |-> fl.outputFile,
                  SetupWorkflow |-> fl.setupWorkflow]),
     err |-> ""]

\* A Load that forgets to require the mirror.
LoadWithoutMirrorCheck(fl, environ) ==
    LET gh          == environ.GH_TOKEN
        githubToken == IF gh = <<>> THEN environ.GITHUB_TOKEN ELSE gh
        lower       == ToLower(fl.syncInterval)
    IN  IF githubToken = <<>> /\ fl.setupWorkflow
        THEN [cfg |-> Nil, err |-> "GitHub token not found in environment"]
        ELSE IF fl.primaryRepo = <<>>
        THEN [cfg |-> Nil, err |-> "primary repository URL is required"]
        ELSE IF ~(lower = hourly \/ lower = daily \/ lower = weekly)
        THEN [cfg |-> Nil, err |-> "invalid sync interval"]
        ELSE NewConfig(fl, githubToken)

\* A Load that forgets to require the token of --setup.
LoadWithoutTokenCheck(fl, environ) ==
    LET gh          == environ.GH_TOKEN
        githubToken == IF gh = <<>> THEN environ.GITHUB_TOKEN ELSE gh
        lower       == ToLower(fl.syncInterval)
    IN  IF fl.primaryRepo = <<>>
        THEN [cfg |-> Nil, err |-> "primary repository URL is required"]
        ELSE IF fl.mirrorRepo = <<>>
        THEN [cfg |-> Nil, err |-> "mirror repository URL is required"]
        ELSE IF ~(lower = hourly \/ lower = daily \/ lower = weekly)
        THEN [cfg |-> Nil, err |-> "invalid sync interval"]
        ELSE NewConfig(fl, githubToken)

Load(fl, environ) ==
    LET gh          == environ.GH_TOKEN
        githubToken == IF gh = <<>> THEN environ.GITHUB_TOKEN ELSE gh
        lower       == ToLower(fl.syncInterval)
    IN  IF githubToken = <<>> /\ fl.setupWorkflow
        THEN [cfg |-> Nil, err |-> "GitHub token not found in environment"]
        ELSE IF fl.primaryRepo = <<>>
        THEN [cfg |-> Nil, err |-> "primary repository URL is required"]
        ELSE IF fl.mirrorRepo = <<>>
        THEN [cfg |-> Nil, err |-> "mirror repository URL is required"]
        ELSE IF ~(lower = hourly \/ lower = daily \/ lower = weekly)
        THEN [cfg |-> Nil, err |-> "invalid sync interval"]
        ELSE NewConfig(fl, githubToken)

\* ------------------------------------------------------------------------
\* Package workflow: the sync script and the workflow document
\* ------------------------------------------------------------------------

\* A rendered line of the script template is a sequence of chunks: the
\* template's literal text, and the field values put between it.
Lit(text) == [k |-> "lit", s |-> text, v |-> <<>>]
Val(value) == [k |-> "val", s |-> "", v |-> value]

ForceBlock(data) ==
    << <<>>,
       <<Lit("# Force-apply all changes from primary, overriding any conflicts")>>,
       <<Lit("echo \"Performing force sync from primary/"), Val(data.PrimaryBranch),
         Lit(" to "), Val(data.MirrorBranch), Lit("\"")>>,
       <<Lit("git reset --hard primary/"), Val(data.PrimaryBranch)>>,
       <<>> >>

MergeBlock(data) ==
    << <<>>,
       <<Lit("# Attempt to merge changes from primary")>>,
       <<Lit("echo \"Attempting to merge changes from primary/"), Val(data.PrimaryBranch),
         Lit(" to "), Val(data.MirrorBranch), Lit("\"")>>,
       <<Lit("if ! git merge primary/"), Val(data.PrimaryBranch), Lit(" --no-edit; then")>>,
       <<Lit("  # If merge fails, prefer the primary repository's changes")>>,
       <<Lit("  echo \"Merge conflict detected, preferring primary repository's changes\"")>>,
       <<Lit("  git checkout --theirs .")>>,
       <<Lit("  git add .")>>,
       <<Lit("  git commit -m \"Merge primary repository, preferring primary changes in conflicts\"")>>,
       <<Lit("fi")>>,
       <<>> >>

\* The part of the template before the {{if .ForceSync}}.
ScriptHead(data) ==
    << <<Lit("# Add the primary repository as a remote")>>,
       <<Lit("git remote add primary "), Val(data.PrimaryRepo)>>,
       <<>>,
       <<Lit("# Fetch the latest changes from the primary repository")>>,
       <<Lit("git fetch primary")>>,
       <<>>,
       <<Lit("# Check if the primary branch exists in the primary repository")>>,
       <<Lit("if git ls-remote --heads primary "), Val(data.PrimaryBranch),
         Lit(" | grep -q "), Val(data.PrimaryBranch), Lit("; then")>>,
       <<Lit("  echo \"Primary branch "), Val(data.PrimaryBranch),
         Lit(" found in primary repository\"")>>,
       <<Lit("else")>>,
       <<Lit("  echo \"Error: Primary branch "), Val(data.PrimaryBranch),
         Lit(" not found in primary repository\"")>>,
       <<Lit("  exit 1")>>,
       <<Lit("fi")>>,
       <<>>,
       <<Lit("# Check if we're already on the mirror branch")>>,
       <<Lit("if git rev-parse --verify --quiet "), Val(data.MirrorBranch), Lit("; then")>>,
       <<Lit("  git checkout "), Val(data.MirrorBranch)>>,
       <<Lit("else")>>,
       <<Lit("  # Create the mirror branch if it doesn't exist")>>,
       <<Lit("  git checkout -b "), Val(data.MirrorBranch)>>,
       <<Lit("fi")>>,
       <<>> >>

\* The part of the template after the {{end}}.
ScriptTail(data) ==
    << <<>>,
       <<Lit("# Push changes back to the mirror repository")>>,
       <<Lit("git push origin "), Val(data.MirrorBranch)>> >>

\* A template whose {{if}} takes the wrong block.
generateSyncScriptInverted(data) ==
    ScriptHead(data)
    \o (IF data.ForceSync THEN MergeBlock(data) ELSE ForceBlock(data))
    \o ScriptTail(data)

generateSyncScript(data) ==
    ScriptHead(data)
    \o (IF data.ForceSync THEN ForceBlock(data) ELSE MergeBlock(data))
    \o ScriptTail(data)

\* The map[string]interface{}{} of a trigger without options.
EmptyMap == <<>>

GuardStep ==
    [name |-> "Validate Github Actions Environment",
     run  |-> "if [ \"$GITHUB_ACTIONS\" != \"true\" ]; then echo 'This script must be run in a GitHub Actions environment.'; exit 1; fi"]

CheckoutStep ==
    [name |-> "Checkout GitHub Mirror",
     uses |-> "actions/checkout@v3",
     with |-> [fetch_depth |-> 0]]

IdentityStep ==
    [name |-> "Configure Git",
     run  |-> "git config user.name 'GitHub Actions'\ngit config user.email 'actions@github.com'"]

SyncStep(data) ==
    [name |-> "Sync Primary Repository",
     run  |-> generateSyncScript(data),
     env  |-> [GITHUB_TOKEN |-> "${{ secrets.GITHUB_TOKEN }}"]]

\* A step list that leaves the checkout out of a forced sync.
WorkflowStepsWithoutCheckout(data) ==
    IF data.ForceSync
    THEN <<GuardStep, IdentityStep, SyncStep(data)>>
    ELSE <<GuardStep, CheckoutStep, IdentityStep, SyncStep(data)>>

WorkflowSteps(data) == <<GuardStep, CheckoutStep, IdentityStep, SyncStep(data)>>

\* addComments: the fixed header, then the encoded document.  A YAML mapping
\* is a function of its keys and a YAML sequence keeps its order, so the
\* encoded document is the tree itself.
addComments(yaml) ==
    [header |-> "# GitHub Actions workflow file to sync an external repository to this GitHub mirror.",
     doc    |-> yaml]

generateWorkflowYAML(data) ==
    [text |-> addComments(
                 [name |-> "Sync Primary Repository to GitHub Mirror",
                  on   |-> [push              |-> EmptyMap,
                            schedule          |-> <<[cron |-> data.CronSchedule]>>,
                            workflow_dispatch |-> EmptyMap],
                  jobs |-> [sync |-> [runs_on |-> "ubuntu-latest",
                                      steps   |-> WorkflowSteps(data)]]]),
     err  |-> ""]

\* Generate, after generateWorkflowYAML returned r.
GenerateResult(r) ==
    IF r.err # "" THEN [text |-> <<>>, err |-> "failed to generate workflow YAML"] ELSE r

Generate(c) ==
    GenerateResult(generateWorkflowYAML(
        [PrimaryRepo   |-> c.PrimaryRepo,
         MirrorRepo    |-> c.MirrorRepo,
         PrimaryBranch |-> c.PrimaryBranch,
         MirrorBranch  |-> c.MirrorBranch,
         CronSchedule  |-> getCronSchedule(c.SyncInterval),
         ForceSync     |-> c.ForceSync]))

\* ------------------------------------------------------------------------
\* Package git: repository validation
\* ------------------------------------------------------------------------

\* A probe that is made a second time when the first one fails.
checkEndpointRetry(checkURL, outcome) ==
    IF Parse(checkURL).err # ""
    THEN [err |-> "failed to create HTTP request", probes |-> <<>>]
    ELSE [err    |-> IF outcome = "ok" THEN ""
                     ELSE IF outcome = "status" THEN "repository returned error status"
                     ELSE "failed to access repository",
          probes |-> IF outcome = "ok" THEN <<checkURL>> ELSE <<checkURL, checkURL>>]

\* checkEndpoint: the request is built first (an unparsable URL fails without
\* any traffic), then the HEAD request is made.  outcome is what the network
\* answers: "ok" (status below 400), "status" (400 or above), "transport".
checkEndpoint(checkURL, outcome) ==
    IF Parse(checkURL).err # ""
    THEN [err |-> "failed to create HTTP request", probes |-> <<>>]
    ELSE [err    |-> IF outcome = "ok" THEN ""
                     ELSE IF outcome = "status" THEN "repository returned error status"
                     ELSE "failed to access repository",
          probes |-> <<checkURL>>]

validateRepoURL(repoURL, outcome) ==
    IF HasPrefix(repoURL, HttpPrefix) \/ HasPrefix(repoURL, HttpsPrefix)
    THEN IF Contains(repoURL, GithubHost)
         THEN checkEndpoint(ensureGitExtension(repoURL) \o InfoRefs, outcome)
         ELSE checkEndpoint(ensureGitExtension(repoURL), outcome)
    ELSE IF HasPrefix(repoURL, GitAt) \/ HasPrefix(repoURL, SshScheme)
    THEN IF ~Contains(repoURL, Colon) /\ ~Contains(repoURL, Slash)
         THEN [err |-> "invalid SSH URL format", probes |-> <<>>]
         ELSE [err |-> "", probes |-> <<>>]
    ELSE [err |-> "unsupported repository URL scheme", probes |-> <<>>]

\* ValidateRepos gives the error, the probes made, and the reference it logs.
\* Its end, the mirror resolved to r:
ValidateParsed(v, r) ==
    IF r.err # ""
    THEN [err |-> "failed to parse GitHub repository URL", probes |-> v.probes, parsed |-> Nil]
    ELSE [err |-> "", probes |-> v.probes, parsed |-> Ptr(r)]

\* Its middle, the primary validated with result v:
ValidateMirror(c, v) ==
    IF v.err # ""
    THEN [err |-> "invalid primary repository URL", probes |-> v.probes, parsed |-> Nil]
    ELSE IF ~Contains(c.MirrorRepo, GithubHost)
    THEN [err |-> "mirror repository must be a GitHub repository URL",
          probes |-> v.probes, parsed |-> Nil]
    ELSE ValidateParsed(v, gitParseGitHubURL(c.MirrorRepo))

ValidateRepos(c, outcome) == ValidateMirror(c, validateRepoURL(c.PrimaryRepo, outcome))

\* ------------------------------------------------------------------------
\* Package github: the forge client
\* ------------------------------------------------------------------------

workflowPath == ".github/workflows/sync-mirror.yml"

StatusOK == 200
StatusNotFound == 404

\* NewClient, the mirror resolved to r.
NewClientParsed(c, r) ==
    IF r.err # ""
    THEN [client |-> Nil, err |-> "failed to parse GitHub repository URL"]
    ELSE [client |-> Ptr([authenticated |-> c.GithubToken # <<>>,
                          owner |-> r.owner, repo |-> r.repo]),
          err |-> ""]

NewClient(c) == NewClientParsed(c, githubParseGitHubURL(c.MirrorRepo))

\* What Repositories.GetContents can give back: err (TRUE for a non-nil
\* error), resp (<<>> for a nil response, else <<status>>) and fileContent
\* (<<>> for nil, else <<[SHA |-> s]>>).
GetContentsResult(failed, resp, fileContent) ==
    [err |-> failed, resp |-> resp, fileContent |-> fileContent]

\* SetupWorkflow, up to the write: the decision taken on the existence check.
SetupWorkflowCheck(g) ==
    IF ~g.err /\ g.resp[1] = StatusOK /\ g.fileContent # <<>>
    THEN [write |-> TRUE, commitMsg |-> "Update repository sync workflow",
          sha |-> <<g.fileContent[1].SHA>>, err |-> ""]
    ELSE IF g.resp # <<>> /\ g.resp[1] # StatusNotFound
    THEN [write |-> FALSE, commitMsg |-> "Add repository sync workflow",
          sha |-> <<>>, err |-> "failed to check for existing workflow file"]
    ELSE [write |-> TRUE, commitMsg |-> "Add repository sync workflow",
          sha |-> <<>>, err |-> ""]

main_ == <<"m", "a", "i", "n">>
dev == <<"d", "e", "v">>
Tok1 == <<"g", "h", "t", "o", "k">>
Tok2 == <<"g", "i", "t", "h", "u", "b", "t", "o", "k">>
OutPath == <<"s", "y", "n", "c", ".", "y", "a", "m", "l">>
ShaA == <<"a", "1">>
ShaB == <<"b", "2">>


\* ------------------------------------------------------------------------
\* The inputs of an invocation
\* ------------------------------------------------------------------------

HttpsLocation(host, owner, name) == HttpsPrefix \o host \o Slash \o owner \o Slash \o name
SshLocation(owner, name) == SshGithubPrefix \o owner \o Slash \o name

PrimaryInputs ==
    { <<>>,
      HttpsLocation(ExampleHost, user, repo \o GitSuffix),
      HttpsLocation(GithubHost, user, repo),
      GitAt \o ExampleHost \o Colon \o user \o Slash \o repo \o GitSuffix,
      GitAt \o ExampleHost,
      <<"f", "t", "p", ":", "/", "/">> \o ExampleHost \o Slash \o repo }

MirrorInputs ==
    { <<>>,
      HttpsLocation(GithubHost, user, repo),
      HttpsLocation(GithubHost, user, repo \o GitSuffix),
      SshLocation(user, repo \o GitSuffix),
      HttpsLocation(ExampleHost, user, repo),
      HttpsPrefix \o GithubHost \o Slash \o user }

IntervalInputs ==
    { hourly, daily, weekly,
      <<"D", "a", "i", "l", "y">>, biweekly }

FlagInputs ==
    [primaryRepo : PrimaryInputs, mirrorRepo : MirrorInputs,
     primaryBranch : {main_, dev}, mirrorBranch : {main_},
     syncInterval : IntervalInputs, forceSync : BOOLEAN,
     outputFile : {<<>>, OutPath}, setupWorkflow : BOOLEAN]

EnvInputs == [GH_TOKEN : {<<>>, Tok1}, GITHUB_TOKEN : {<<>>, Tok2}]

\* What the network answers to the reachability probe; nothing but a
\* transport failure once the context is cancelled.
ProbeOutcomes(cancelled) ==
    IF cancelled THEN {"transport"} ELSE {"ok", "status", "transport"}

\* What the forge answers to the existence check: the file, a directory, not
\* found, another HTTP error, or no response at all.
GetContentsOutcomes(cancelled) ==
    IF cancelled THEN { GetContentsResult(TRUE, <<>>, <<>>) }
    ELSE { GetContentsResult(FALSE, <<StatusOK>>, <<[SHA |-> h]>>) : h \in {ShaA, ShaB} }
         \cup { GetContentsResult(FALSE, <<StatusOK>>, <<>>),
                GetContentsResult(TRUE, <<StatusNotFound>>, <<>>),
                GetContentsResult(TRUE, <<403>>, <<>>),
                GetContentsResult(TRUE, <<>>, <<>>) }

\* Whether the forge accepts the write.
CreateFileOutcomes(cancelled) == IF cancelled THEN {FALSE} ELSE BOOLEAN

\* What `git remote -v` yields to the auto-detection: nothing, or a mirror.
DetectOutcomes == { <<>>, HttpsLocation(GithubHost, user, repo) }

\* The flags and the environment of a plain invocation.
DefaultFlags ==
    [primaryRepo |-> HttpsLocation(ExampleHost, user, repo \o GitSuffix),
     mirrorRepo |-> HttpsLocation(GithubHost, user, repo),
     primaryBranch |-> main_, mirrorBranch |-> main_, syncInterval |-> hourly,
     forceSync |-> TRUE, outputFile |-> <<>>, setupWorkflow |-> FALSE]

DefaultEnv == [GH_TOKEN |-> <<>>, GITHUB_TOKEN |-> <<>>]

\* Every way to write the word w in upper and lower case.
RECURSIVE CaseVariants(_)
CaseVariants(w) ==
    IF w = <<>> THEN {<<>>}
    ELSE {<<c>> \o t : c \in {w[1], ToUpperChar(w[1])}, t \in CaseVariants(Tail(w))}

\* Interval strings handed to getCronSchedule directly.
CronInputs ==
    CaseVariants(hourly) \cup CaseVariants(daily) \cup CaseVariants(weekly)
    \cup {<<>>, biweekly, SubSeq(hourly, 1, 5), hourly \o <<"y">>, daily \o <<" ">>}

\* The pieces that owner and name segments are put together from.
Pieces == {user, GitSuffix, <<"?">>, <<"#">>, Slash}

\* The texts made of at most n pieces.
RECURSIVE Words(_)
Words(n) ==
    IF n = 0 THEN {<<>>}
    ELSE Words(n - 1) \cup {w \o q : w \in Words(n - 1), q \in Pieces}

OwnerInputs == Words(MaxParts - 1)
NameInputs == Words(MaxParts)
HostInputs == {GithubHost, ExampleHost}

\* Primary locations in SSH form handed to validateRepoURL directly: with
\* and without a ':' and a '/'.
SshPrimaryInputs ==
    { pre \o ExampleHost \o rest :
        pre \in {GitAt, SshScheme},
        rest \in {<<>>, Colon \o repo, Slash \o repo, Colon \o user \o Slash \o repo} }

\* ------------------------------------------------------------------------
\* The state of an invocation
\* ------------------------------------------------------------------------

VARIABLES
    flags,        \* the parsed command-line flags (package config's variables)
    env,          \* GH_TOKEN and GITHUB_TOKEN
    pc,           \* where run (and main after it) stands
    cfg,          \* run's cfg: nil, or the Configuration Load returned
    detectRan,    \* whether run took the auto-detection branch
    parsed,       \* the reference ValidateRepos resolved and logged
    client,       \* the forge client of NewClient
    workflowYAML, \* the text Generate returned
    getResult,    \* what the existence check of SetupWorkflow returned
    net,          \* the network operations made, in order
    out,          \* what was written to standard output or to a file
    runErr,       \* the error run returned ("" for nil)
    exit,         \* the process exit code, Running until the process ends
    sig,          \* the signal-handler goroutine
    ctxCancelled, \* whether the context of main was cancelled
    call          \* the last direct application of a function of the program

vars == <<flags, env, pc, cfg, detectRan, parsed, client, workflowYAML, getResult,
          net, out, runErr, exit, sig, ctxCancelled, call>>

runVars == <<flags, env, pc, cfg, detectRan, parsed, client, workflowYAML, getResult,
             net, out, runErr, exit, sig, ctxCancelled>>

\* The exit code: <<>> while the process runs, <<code>> once it has ended.
Running == <<>>
Exited(code) == <<code>>

NoCall == [fn |-> "none"]

NoResult == GetContentsResult(FALSE, <<>>, <<>>)

Init ==
    /\ flags \in FlagInputs
    /\ env \in EnvInputs
    /\ pc = "load"
    /\ cfg = Nil
    /\ detectRan = FALSE
    /\ parsed = Nil
    /\ client = Nil
    /\ workflowYAML = <<>>
    /\ getResult = NoResult
    /\ net = <<>>
    /\ out = <<>>
    /\ runErr = ""
    /\ exit = Running
    /\ sig = "waiting"
    /\ ctxCancelled = FALSE
    /\ call = NoCall

\* run returns err to main.
Return(err) == pc' = "returned" /\ runErr' = err

\* config.Load, then the auto-detection of the mirror when it is empty.
RunLoad ==
    /\ pc = "load" /\ exit = Running
    /\ \E d \in DetectOutcomes, r \in {Load(flags, env)} :
             IF r.err # ""
             THEN /\ Return("failed to load configuration")
                  /\ UNCHANGED <<cfg, detectRan>>
             ELSE /\ detectRan' = (r.cfg[1].MirrorRepo = <<>>)
                  /\ cfg' = IF r.cfg[1].MirrorRepo = <<>> /\ ~ctxCancelled /\ d # <<>>
                            THEN Ptr([r.cfg[1] EXCEPT !.MirrorRepo = d])
                            ELSE r.cfg
                  /\ pc' = "validate"
                  /\ UNCHANGED runErr
    /\ UNCHANGED <<flags, env, parsed, client, workflowYAML, getResult, net, out,
                   exit, sig, ctxCancelled, call>>

\* git.NewClient and ValidateRepos.
RunValidate ==
    /\ pc = "validate" /\ exit = Running
    /\ \E o \in ProbeOutcomes(ctxCancelled) :
         \E r \in {ValidateRepos(cfg[1], o)} :
             /\ net' = net \o [i \in 1..Len(r.probes) |->
                                 [op |-> "probe", url |-> r.probes[i], sent |-> ~ctxCancelled]]
             /\ parsed' = r.parsed
             /\ IF r.err # ""
                THEN Return("repository validation failed")
                ELSE pc' = "newclient" /\ UNCHANGED runErr
    /\ UNCHANGED <<flags, env, cfg, detectRan, client, workflowYAML, getResult, out,
                   exit, sig, ctxCancelled, call>>

\* github.NewClient.
RunNewClient ==
    /\ pc = "newclient" /\ exit = Running
    /\ \E r \in {NewClient(cfg[1])} :
           /\ client' = r.client
           /\ IF r.err # ""
              THEN Return("failed to create GitHub client")
              ELSE pc' = "generate" /\ UNCHANGED runErr
    /\ UNCHANGED <<flags, env, cfg, detectRan, parsed, workflowYAML, getResult, net, out,
                   exit, sig, ctxCancelled, call>>

\* A run that installs the workflow whether or not --setup was given.
RunGenerateAlwaysInstall ==
    /\ pc = "generate" /\ exit = Running
    /\ \E r \in {Generate(cfg[1])} :
           IF r.err # ""
           THEN Return("failed to generate workflow file") /\ UNCHANGED workflowYAML
           ELSE /\ workflowYAML' = <<r.text>>
                /\ pc' = "getcontents"
                /\ UNCHANGED runErr
    /\ UNCHANGED <<flags, env, cfg, detectRan, parsed, client, getResult, net, out,
                   exit, sig, ctxCancelled, call>>

\* workflow.NewGenerator and Generate.
RunGenerate ==
    /\ pc = "generate" /\ exit = Running
    /\ \E r \in {Generate(cfg[1])} :
           IF r.err # ""
           THEN Return("failed to generate workflow file") /\ UNCHANGED workflowYAML
           ELSE /\ workflowYAML' = <<r.text>>
                /\ pc' = IF cfg[1].SetupWorkflow THEN "getcontents" ELSE "output"
                /\ UNCHANGED runErr
    /\ UNCHANGED <<flags, env, cfg, detectRan, parsed, client, getResult, net, out,
                   exit, sig, ctxCancelled, call>>

\* SetupWorkflow, first half: the existence check and the decision on it.
RunGetContents ==
    /\ pc = "getcontents" /\ exit = Running
    /\ \E g \in GetContentsOutcomes(ctxCancelled) :
         /\ getResult' = g
         /\ net' = Append(net, [op |-> "GetContents", owner |-> client[1].owner,
                                repo |-> client[1].repo, path |-> workflowPath,
                                sent |-> ~ctxCancelled])
         /\ IF SetupWorkflowCheck(g).write
            THEN pc' = "createfile" /\ UNCHANGED runErr
            ELSE Return("failed to setup GitHub workflow")
    /\ UNCHANGED <<flags, env, cfg, detectRan, parsed, client, workflowYAML, out,
                   exit, sig, ctxCancelled, call>>

\* SetupWorkflow, second half: the create-or-update write.
RunCreateFile ==
    /\ pc = "createfile" /\ exit = Running
    /\ \E ok \in CreateFileOutcomes(ctxCancelled), d \in {SetupWorkflowCheck(getResult)} :
             /\ net' = Append(net, [op |-> "CreateFile", owner |-> client[1].owner,
                                    repo |-> client[1].repo, path |-> workflowPath,
                                    message |-> d.commitMsg, content |-> workflowYAML[1],
                                    sha |-> d.sha, sent |-> ~ctxCancelled])
             /\ Return(IF ok THEN "" ELSE "failed to setup GitHub workflow")
    /\ UNCHANGED <<flags, env, cfg, detectRan, parsed, client, workflowYAML, getResult, out,
                   exit, sig, ctxCancelled, call>>

\* The workflow goes to the output file, or to standard output.
RunOutput ==
    /\ pc = "output" /\ exit = Running
    /\ \E ok \in BOOLEAN :
         IF cfg[1].OutputFile # <<>>
         THEN IF ok
              THEN /\ out' = Append(out, [to |-> "file", name |-> cfg[1].OutputFile,
                                          content |-> workflowYAML[1]])
                   /\ Return("")
              ELSE /\ Return("failed to write workflow to file")
                   /\ UNCHANGED out
         ELSE /\ out' = Append(out, [to |-> "stdout", name |-> <<>>,
                                     content |-> workflowYAML[1]])
              /\ Return("")
    /\ UNCHANGED <<flags, env, cfg, detectRan, parsed, client, workflowYAML, getResult, net,
                   exit, sig, ctxCancelled, call>>

\* main after rootCmd.Execute: os.Exit(1) on an error, a plain return otherwise.
MainExit ==
    /\ pc = "returned" /\ exit = Running
    /\ exit' = IF runErr # "" THEN Exited(1) ELSE Exited(0)
    /\ pc' = "exited"
    /\ UNCHANGED <<flags, env, cfg, detectRan, parsed, client, workflowYAML, getResult,
                   net, out, runErr, sig, ctxCancelled, call>>

\* An interrupt or SIGTERM reaches the channel of the handler goroutine.
SignalDelivered ==
    /\ sig = "waiting" /\ exit = Running
    /\ sig' = "received"
    /\ UNCHANGED <<flags, env, pc, cfg, detectRan, parsed, client, workflowYAML, getResult,
                   net, out, runErr, exit, ctxCancelled, call>>

\* The handler goroutine: <-c, then cancel().
HandlerCancel ==
    /\ sig = "received" /\ exit = Running
    /\ sig' = "cancelled"
    /\ ctxCancelled' = TRUE
    /\ UNCHANGED <<flags, env, pc, cfg, detectRan, parsed, client, workflowYAML, getResult,
                   net, out, runErr, exit, call>>

\* The handler goroutine: os.Exit(1).
HandlerExit ==
    /\ sig = "cancelled" /\ exit = Running
    /\ sig' = "exited"
    /\ exit' = Exited(1)
    /\ UNCHANGED <<flags, env, pc, cfg, detectRan, parsed, client, workflowYAML, getResult,
                   net, out, runErr, ctxCancelled, call>>

Next ==
    \/ RunLoad
    \/ RunValidate
    \/ RunNewClient
    \/ RunGenerate
    \/ RunGetContents
    \/ RunCreateFile
    \/ RunOutput
    \/ MainExit
    \/ SignalDelivered
    \/ HandlerCancel
    \/ HandlerExit

Spec == Init /\ [][Next]_vars

\* The invocation with the scheduling the Go runtime gives while the process
\* lives: once run has returned, main logs the error and leaves; once a
\* signal is in the channel, the handler goroutine gets to run.  The stages
\* of run wait for the network and are given no such promise.
SpecLive ==
    /\ Spec
    /\ WF_vars(MainExit)
    /\ WF_vars(HandlerCancel)
    /\ WF_vars(HandlerExit)

\* ------------------------------------------------------------------------
\* The functions of the program, applied directly to bounded inputs
\* ------------------------------------------------------------------------

InitPure ==
    /\ flags = DefaultFlags
    /\ env = DefaultEnv
    /\ pc = "load"
    /\ cfg = Nil
    /\ detectRan = FALSE
    /\ parsed = Nil
    /\ client = Nil
    /\ workflowYAML = <<>>
    /\ getResult = NoResult
    /\ net = <<>>
    /\ out = <<>>
    /\ runErr = ""
    /\ exit = Running
    /\ sig = "waiting"
    /\ ctxCancelled = FALSE
    /\ call = NoCall

\* getCronSchedule(interval).
CallGetCronSchedule ==
    /\ call = NoCall
    /\ \E s \in CronInputs :
         call' = [fn |-> "getCronSchedule", arg |-> s, ret |-> getCronSchedule(s)]
    /\ UNCHANGED runVars

\* Both parseGitHubURL on the location https://host/owner/name, with or
\* without a trailing ".git".
CallParseGitHubURL ==
    /\ call = NoCall
    /\ \E h \in HostInputs, o \in OwnerInputs, n \in NameInputs, suffixed \in BOOLEAN :
         \E loc \in {HttpsLocation(h, o, n) \o (IF suffixed THEN GitSuffix ELSE <<>>)} :
            call' = [fn |-> "parseGitHubURL", host |-> h, owner |-> o, name |-> n,
                     suffixed |-> suffixed, arg |-> loc,
                     git |-> gitParseGitHubURL(loc),
                     github |-> githubParseGitHubURL(loc)]
    /\ UNCHANGED runVars

\* validateRepoURL(ctx, repoURL), with the answer of the network.
CallValidateRepoURL ==
    /\ call = NoCall
    /\ \E u \in SshPrimaryInputs \cup PrimaryInputs, o \in ProbeOutcomes(FALSE) :
         call' = [fn |-> "validateRepoURL", arg |-> u, outcome |-> o,
                  ret |-> validateRepoURL(u, o)]
    /\ UNCHANGED runVars

NextPure ==
    \/ CallGetCronSchedule
    \/ CallParseGitHubURL
    \/ CallValidateRepoURL

SpecPure == InitPure /\ [][NextPure]_vars

\* ------------------------------------------------------------------------
\* The claims
\* ------------------------------------------------------------------------

\* The cron expression that belongs to a cadence, as the specification gives it.
CronOfCadence(cadence) ==
    IF cadence = hourly THEN "0 * * * *"
    ELSE IF cadence = daily THEN "0 0 * * *"
    ELSE "0 0 * * 0"

\* The workflow document of the generated text, and the script of its sync step.
Document == workflowYAML[1].doc
Script == Document.jobs.sync.steps[4].run

\* C1: for every sync interval that Load accepts (hourly, daily or weekly in
\* any letter case), the cron expression in the schedule trigger of the
\* generated workflow is the one of that cadence.
C1_CronOfAcceptedInterval ==
    workflowYAML # <<>> =>
        Document.on.schedule = <<[cron |-> CronOfCadence(ToLower(flags.syncInterval))]>>

\* C2: getCronSchedule is total: "0 * * * *" for hourly, "0 0 * * *" for
\* daily, "0 0 * * 0" for weekly, and the hourly expression for every other
\* string.
C2_CronScheduleTotal ==
    call.fn = "getCronSchedule" =>
        /\ call.arg = hourly => call.ret = "0 * * * *"
        /\ call.arg = daily => call.ret = "0 0 * * *"
        /\ call.arg = weekly => call.ret = "0 0 * * 0"
        /\ call.arg \notin {hourly, daily, weekly} => call.ret = "0 * * * *"

\* C2's case: a string that is none of the three cadences was mapped to the
\* hourly expression.
C2_Witness ==
    /\ call.fn = "getCronSchedule"
    /\ call.arg = biweekly
    /\ call.ret = "0 * * * *"

\* What Load requires of the flags and the environment.
LoadPreconditions ==
    /\ flags.primaryRepo # <<>>
    /\ flags.mirrorRepo # <<>>
    /\ ToLower(flags.syncInterval) \in {hourly, daily, weekly}
    /\ flags.setupWorkflow => (env.GH_TOKEN # <<>> \/ env.GITHUB_TOKEN # <<>>)

\* C3: once Load has returned, run holds a Configuration only if the primary
\* and the mirror are non-empty, the interval is one of the three cadences and
\* a token was found when setupWorkflow is true; otherwise Load returned an
\* error and nil, never a partly filled Configuration.
C3_LoadAllOrNothing ==
    pc # "load" =>
        IF LoadPreconditions
        THEN /\ cfg # Nil
             /\ cfg[1].PrimaryRepo # <<>>
             /\ cfg[1].MirrorRepo # <<>>
             /\ ToLower(cfg[1].SyncInterval) \in {hourly, daily, weekly}
             /\ cfg[1].SetupWorkflow => cfg[1].GithubToken # <<>>
        ELSE /\ cfg = Nil
             /\ runErr = "failed to load configuration"

\* C3's case: Load refused flags whose only fault is the empty mirror.
C3_Witness ==
    /\ pc = "returned"
    /\ flags.mirrorRepo = <<>>
    /\ flags.primaryRepo # <<>>
    /\ ToLower(flags.syncInterval) = daily
    /\ ~flags.setupWorkflow
    /\ cfg = Nil
    /\ runErr = "failed to load configuration"

\* setupWorkflow is asked for and neither GH_TOKEN nor GITHUB_TOKEN is set.
SetupWithoutToken ==
    flags.setupWorkflow /\ env.GH_TOKEN = <<>> /\ env.GITHUB_TOKEN = <<>>

\* C4: with setupWorkflow true and no token in GH_TOKEN or GITHUB_TOKEN, the
\* run fails at configuration construction and makes no network operation at
\* any point of the invocation.
C4_NoNetworkWithoutToken ==
    SetupWithoutToken =>
        /\ net = <<>>
        /\ cfg = Nil
        /\ pc \in {"load", "returned", "exited"}
        /\ pc # "load" => runErr = "failed to load configuration"
        /\ exit # Exited(0)

\* C4's case: such an invocation ran to its end.
C4_Witness ==
    /\ SetupWithoutToken
    /\ flags.primaryRepo # <<>>
    /\ flags.mirrorRepo # <<>>
    /\ pc = "exited"
    /\ exit = Exited(1)
    /\ net = <<>>

\* The owner and the name of a direct resolver call are non-empty and hold no '/'.
PlainSegments ==
    /\ call.owner # <<>> /\ ~Contains(call.owner, Slash)
    /\ call.name # <<>> /\ ~Contains(call.name, Slash)

\* C5 as stated: for every non-empty owner O and name N without '/', both
\* resolvers return (O, N) without error for https://host/O/N and for
\* https://host/O/N.git.
C5_Original ==
    (call.fn = "parseGitHubURL" /\ PlainSegments) =>
        /\ call.git = Resolved(call.owner, call.name)
        /\ call.github = Resolved(call.owner, call.name)

\* The owner and the name hold no URL delimiter, and the name does not
\* itself end in ".git".
UnreservedSegments ==
    /\ PlainSegments
    /\ ~Contains(call.owner, <<"?">>) /\ ~Contains(call.owner, <<"#">>)
    /\ ~Contains(call.name, <<"?">>) /\ ~Contains(call.name, <<"#">>)
    /\ ~HasSuffix(call.name, GitSuffix)

\* C5, amended: for every non-empty owner O and name N that hold none of
\* '/', '?', '#' (nor '%' or a control character), N not ending in ".git",
\* both resolvers return (O, N) without error for https://host/O/N and for
\* https://host/O/N.git.
C5_ResolversAgree ==
    (call.fn = "parseGitHubURL" /\ UnreservedSegments) =>
        /\ call.git = Resolved(call.owner, call.name)
        /\ call.github = Resolved(call.owner, call.name)

\* C5's case: a location with a trailing ".git", on a host other than the
\* forge's, resolved by both.
C5_Witness ==
    /\ call.fn = "parseGitHubURL"
    /\ UnreservedSegments
    /\ call.suffixed
    /\ call.host = ExampleHost
    /\ call.name = user \o user
    /\ call.git = Resolved(call.owner, call.name)
    /\ call.github = Resolved(call.owner, call.name)

\* C6: a run whose mirror is git@github.com:O/N or git@github.com:O/N.git
\* (and whose primary is acceptable) passes ValidateRepos, which resolves the
\* mirror to (O, N), and goes on to the forge client and the generation.
C6_SshMirrorValidates ==
    (/\ cfg # Nil
     /\ cfg[1].MirrorRepo = SshLocation(user, repo \o GitSuffix)
     /\ HasPrefix(cfg[1].PrimaryRepo, GitAt) /\ Contains(cfg[1].PrimaryRepo, Slash)
     /\ pc \notin {"load", "validate"}) =>
        /\ parsed = Ptr(Resolved(user, repo))
        /\ runErr # "repository validation failed"

\* The command a rendered line of the sync script carries.
IsResetTo(line, branch) == line = <<Lit("git reset --hard primary/"), Val(branch)>>
IsReset(line) == line # <<>> /\ line[1] = Lit("git reset --hard primary/")
IsMergeOf(line, branch) ==
    line = <<Lit("if ! git merge primary/"), Val(branch), Lit(" --no-edit; then")>>
IsCheckoutTheirs(line) == line = <<Lit("  git checkout --theirs .")>>
IsAddAll(line) == line = <<Lit("  git add .")>>
IsCommit(line) ==
    line = <<Lit("  git commit -m \"Merge primary repository, preferring primary changes in conflicts\"")>>
IsMergeCommand(line) ==
    \/ (line # <<>> /\ line[1] = Lit("if ! git merge primary/"))
    \/ IsCheckoutTheirs(line) \/ IsAddAll(line) \/ IsCommit(line)
IsPushOf(line, branch) == line = <<Lit("git push origin "), Val(branch)>>

\* C7: with forceSync the script holds the hard reset to
\* primary/{primaryBranch} and no merge or conflict-resolution command;
\* without it the script holds the merge followed by checkout --theirs, add
\* and commit, and no reset; either way the push of mirrorBranch to origin is
\* its last command.
C7_ScriptFollowsForceSync ==
    workflowYAML # <<>> =>
        /\ IsPushOf(Script[Len(Script)], cfg[1].MirrorBranch)
        /\ IF cfg[1].ForceSync
           THEN /\ \E i \in 1..Len(Script) : IsResetTo(Script[i], cfg[1].PrimaryBranch)
                /\ \A i \in 1..Len(Script) : ~IsMergeCommand(Script[i])
           ELSE /\ \E i \in 1..Len(Script) :
                     /\ IsMergeOf(Script[i], cfg[1].PrimaryBranch)
                     /\ \E j \in (i + 1)..Len(Script) :
                          /\ IsCheckoutTheirs(Script[j])
                          /\ \E k \in (j + 1)..Len(Script) :
                               /\ IsAddAll(Script[k])
                               /\ \E l \in (k + 1)..(Len(Script) - 1) : IsCommit(Script[l])
                /\ \A i \in 1..Len(Script) : ~IsReset(Script[i])

\* C7's case: a merging script was generated for a primary branch that is
\* not the mirror branch.
C7_Witness ==
    /\ workflowYAML # <<>>
    /\ ~cfg[1].ForceSync
    /\ cfg[1].PrimaryBranch = dev
    /\ cfg[1].MirrorBranch = main_
    /\ \E i \in 1..Len(Script) : IsMergeOf(Script[i], dev)

\* C8: every generated workflow document has the three triggers push,
\* schedule and workflow_dispatch and one job, whose steps are exactly the
\* environment guard, the checkout with full history, the git identity
\* configuration and the sync script, in this order.
C8_FixedTriggersAndSteps ==
    workflowYAML # <<>> =>
        /\ DOMAIN Document.on = {"push", "schedule", "workflow_dispatch"}
        /\ DOMAIN Document.jobs = {"sync"}
        /\ Len(Document.jobs.sync.steps) = 4
        /\ Document.jobs.sync.steps[1].name = "Validate Github Actions Environment"
        /\ Document.jobs.sync.steps[2].uses = "actions/checkout@v3"
        /\ Document.jobs.sync.steps[2].with.fetch_depth = 0
        /\ Document.jobs.sync.steps[3].name = "Configure Git"
        /\ Document.jobs.sync.steps[4].name = "Sync Primary Repository"
        /\ IsPushOf(Script[Len(Script)], cfg[1].MirrorBranch)

\* C8's case: a document was generated for a forced sync that is installed.
C8_Witness ==
    /\ workflowYAML # <<>>
    /\ cfg[1].ForceSync
    /\ cfg[1].SetupWorkflow
    /\ Len(Document.jobs.sync.steps) = 4

\* The existence check failed, and not with "not found".
CheckFailedOtherwise ==
    /\ getResult.err
    /\ (getResult.resp = <<>> \/ getResult.resp[1] # StatusNotFound)

\* The existence check reported the file, or reported "not found".
CheckFoundFile ==
    ~getResult.err /\ getResult.resp = <<StatusOK>> /\ getResult.fileContent # <<>>
CheckNotFound == getResult.err /\ getResult.resp = <<StatusNotFound>>

\* The writes that went to the forge.
Writes == {i \in 1..Len(net) : net[i].op = "CreateFile" /\ net[i].sent}

\* C9: when the existence check fails for any reason other than "not found",
\* a transport failure without an HTTP response included, SetupWorkflow
\* returns an error and issues no create/update write.
C9_NoWriteAfterFailedCheck ==
    CheckFailedOtherwise =>
        /\ Writes = {}
        /\ pc \in {"returned", "exited"} => runErr = "failed to setup GitHub workflow"

\* C10: the write carries the file's SHA and the "update" message exactly
\* when the existence check reported the file, carries no SHA and the "add"
\* message exactly when it reported "not found", and always goes to
\* .github/workflows/sync-mirror.yml.
C10_WriteMatchesCheck ==
    \A i \in Writes :
        /\ net[i].path = ".github/workflows/sync-mirror.yml"
        /\ (net[i].sha # <<>> /\ net[i].message = "Update repository sync workflow")
              <=> CheckFoundFile
        /\ (net[i].sha = <<>> /\ net[i].message = "Add repository sync workflow")
              <=> CheckNotFound
        /\ CheckFoundFile => net[i].sha = <<getResult.fileContent[1].SHA>>

\* The calls of the forge content API, reads and writes.
ForgeCalls == {i \in 1..Len(net) : net[i].op \in {"GetContents", "CreateFile"}}

\* Where run puts the generated text when it is not installed.
OutputOf(c, text) ==
    [to      |-> IF c.OutputFile # <<>> THEN "file" ELSE "stdout",
     name    |-> c.OutputFile,
     content |-> text]

\* C11: a forge content-API call is made only with setupWorkflow true and
\* only after loading, validation and generation have succeeded, and the
\* text written is the text Generate returned; with setupWorkflow false no
\* forge call is made and the text goes to outputFile if that is non-empty,
\* to standard output otherwise; with setupWorkflow true nothing goes to
\* outputFile or standard output.
C11_ForgeCallsOnlyOnSetup ==
    /\ ForgeCalls # {} =>
          /\ flags.setupWorkflow
          /\ cfg # Nil /\ parsed # Nil /\ client # Nil /\ workflowYAML # <<>>
          /\ pc \in {"getcontents", "createfile", "returned", "exited"}
    /\ \A i \in ForgeCalls :
          net[i].op = "CreateFile" =>
              /\ net[i].content = workflowYAML[1]
              /\ net[i].content = Generate(cfg[1]).text
    /\ flags.setupWorkflow => out = <<>>
    /\ ~flags.setupWorkflow =>
          /\ ForgeCalls = {}
          /\ Len(out) <= 1
          /\ out # <<>> =>
                /\ workflowYAML # <<>>
                /\ flags.outputFile = cfg[1].OutputFile
                /\ out[1] = OutputOf(cfg[1], Generate(cfg[1]).text)
          /\ (pc \in {"returned", "exited"} /\ runErr = "") => Len(out) = 1

\* C11's case: the generated text was written to the forge, and to nothing else.
C11_Witness ==
    /\ flags.setupWorkflow
    /\ pc = "exited"
    /\ exit = Exited(0)
    /\ out = <<>>
    /\ \E i \in ForgeCalls :
          /\ net[i].op = "CreateFile"
          /\ net[i].sent
          /\ net[i].content = workflowYAML[1]

\* The external operations of one kind made so far.
Operations(kind) == {i \in 1..Len(net) : net[i].op = kind}

\* What a failed stage leaves untouched: the results of the stages after it.
LaterStagesUntouched ==
    /\ runErr = "failed to load configuration" =>
          cfg = Nil /\ net = <<>> /\ parsed = Nil /\ client = Nil
          /\ workflowYAML = <<>> /\ out = <<>>
    /\ runErr = "repository validation failed" =>
          parsed = Nil /\ client = Nil /\ workflowYAML = <<>> /\ ForgeCalls = {} /\ out = <<>>
    /\ runErr = "failed to create GitHub client" =>
          client = Nil /\ workflowYAML = <<>> /\ ForgeCalls = {} /\ out = <<>>
    /\ runErr = "failed to generate workflow file" =>
          workflowYAML = <<>> /\ ForgeCalls = {} /\ out = <<>>
    /\ runErr = "failed to setup GitHub workflow" => out = <<>>
    /\ runErr = "failed to write workflow to file" => out = <<>> /\ ForgeCalls = {}

\* Every stage that run goes through has succeeded.
EveryStageSucceeded ==
    /\ runErr = ""
    /\ cfg # Nil /\ parsed # Nil /\ client # Nil /\ workflowYAML # <<>>
    /\ IF cfg[1].SetupWorkflow
       THEN Cardinality(Operations("CreateFile")) = 1 /\ out = <<>>
       ELSE Len(out) = 1 /\ ForgeCalls = {}

\* The state part of C12.
AtMostOnceAndFailFast ==
    /\ \A kind \in {"probe", "GetContents", "CreateFile"} :
          Cardinality(Operations(kind)) <= 1
    /\ runErr # "" => pc \in {"returned", "exited"}
    /\ LaterStagesUntouched
    /\ (runErr # "" /\ exit # Running) => exit = Exited(1)
    /\ exit = Exited(0) => EveryStageSucceeded

\* The step part of C12: after a stage has failed, run does nothing more.
NothingAfterFailure ==
    runErr # "" =>
        UNCHANGED <<cfg, detectRan, parsed, client, workflowYAML, getResult, net, out, runErr>>

\* C12: the reachability probe, the existence check and the write are each
\* made at most once; as soon as a stage fails no later stage is executed
\* and the process ends with a non-zero exit code; the exit code is 0 only
\* if every executed stage succeeded.
C12_OnceAndFailFast ==
    /\ []AtMostOnceAndFailFast
    /\ [][NothingAfterFailure]_vars
    /\ (runErr # "") ~> (exit = Exited(1))

\* C12's case: the one probe failed, validation failed with it, nothing
\* followed and the process ended with code 1.
C12_Witness ==
    /\ runErr = "repository validation failed"
    /\ Cardinality(Operations("probe")) = 1
    /\ net[1].sent
    /\ Len(net) = 1
    /\ client = Nil /\ workflowYAML = <<>> /\ out = <<>>
    /\ pc = "exited"
    /\ exit = Exited(1)

\* A termination signal has been delivered and run has not returned yet.
SignalledDuringRun == sig # "waiting" /\ pc \notin {"returned", "exited"}

\* Once the context is cancelled, no further write goes to the forge.
NoWriteAfterCancel == ctxCancelled => Writes' = Writes

\* C13: under every interleaving of the handler goroutine with main, a
\* signal delivered before run has returned makes the process end with a
\* non-zero code, never with 0, and after the handler has cancelled the
\* context no new forge write is started.
C13_InterruptedNeverSucceeds ==
    /\ [](SignalledDuringRun => [](exit # Exited(0)))
    /\ [][NoWriteAfterCancel]_vars

\* The argument of a direct validateRepoURL call is in SSH form.
SshForm == HasPrefix(call.arg, GitAt) \/ HasPrefix(call.arg, SshScheme)

\* C14: for a primary location in SSH form (prefix git@ or ssh://),
\* validateRepoURL succeeds if and only if the location holds both a ':' and
\* a '/', and it makes no network probe either way.
C14_SshPrimaryOnSyntax ==
    (call.fn = "validateRepoURL" /\ SshForm) =>
        /\ call.ret.err = "" <=> (Contains(call.arg, Colon) /\ Contains(call.arg, Slash))
        /\ call.ret.probes = <<>>

\* A reference a resolver returned without error is well formed.
WellFormedReference(r) ==
    r.err = "" =>
        /\ r.owner # <<>>
        /\ r.repo # <<>>
        /\ ~HasSuffix(r.repo, GitSuffix)

\* C15: whenever git.parseGitHubURL or github.parseGitHubURL returns
\* without error, the owner and the name are non-empty and the name does not
\* end in ".git"; a location with an empty owner or name segment, or with
\* fewer than two path segments, is refused with an error.
C15_ReferenceWellFormed ==
    call.fn = "parseGitHubURL" =>
        /\ WellFormedReference(call.git)
        /\ WellFormedReference(call.github)
        /\ (call.owner = <<>> \/ call.name = <<>>) =>
              (call.git.err # "" /\ call.github.err # "")

\* The Configuration run holds is the one Load built from the flags.
ConfigurationAsLoaded ==
    cfg # Nil =>
        /\ cfg[1].MirrorRepo # <<>>
        /\ cfg[1].MirrorRepo = flags.mirrorRepo
        /\ cfg = NewConfig(flags, cfg[1].GithubToken).cfg

\* No step changes the Configuration once run holds it.
ConfigurationKept == cfg # Nil => cfg' = cfg

====
